---- MODULE Spec2Model ----
(***************************************************************************)
(* Model of rag_pipeline/video_summarizer.py: class VideoSummarizer.       *)
(*                                                                         *)
(* Time values (durations, start/end times) are whole seconds.  A text is  *)
(* a sequence of segments [tok, n]: tok is a literal substring of n        *)
(* characters ("Error processing chunk", "429", ": ", "...") or "x", a run *)
(* of n ordinary characters that contains none of the literals.  A path is *)
(* a record [dir, stem, ext].                                              *)
(***************************************************************************)
EXTENDS Integers, Sequences, FiniteSets, TLC

VARIABLES
    self_chunk_duration,  \* self.chunk_duration
    video,                \* the source media file: [path, duration, fps, size]
    fs,                   \* the disk: path -> None (no file) or Some(content): a JSON document or an unparseable file
    runs,                 \* number of calls of process_video / resume_failed_processing so far
    pc,                   \* position of the current call
    mode,                 \* "none", "fresh", "reuse", "resume"
    output_path,          \* process_video's output_path argument
    existing_path,        \* resume_failed_processing's existing_summary_path argument
    existing_summary,     \* resume_failed_processing's existing_summary (mutated in place)
    failed_chunks,        \* resume_failed_processing's failed_chunks
    chunks,               \* result of segment_video: sequence of chunk_info
    i,                    \* number of loop iterations completed
    chunk_summaries,      \* process_video's chunk_summaries
    handles,              \* open media handles: 0 is the video, k > 0 the view of chunk k
    ret,                  \* value returned by the call
    exc,                  \* exception raised by the call
    env,                  \* what the media and the remote service do for each chunk in this call
    attempts,             \* summarize_chunk invocations per chunk in this call
    calls,                \* model.generate_content invocations per chunk in this call
    sleeps,               \* time.sleep calls of this call: <<chunk_number, seconds, summarize_chunk calls for the chunk made before>>
    writes,               \* paths written by this call, in order
    opened,               \* media handles opened by this call
    fs0,                  \* the disk when this call started
    loaded0               \* the document resume_failed_processing loaded, before mutation

vars == <<self_chunk_duration, video, fs, runs, pc, mode, output_path,
          existing_path, existing_summary, failed_chunks, chunks, i,
          chunk_summaries, handles, ret, exc, env, attempts, calls, sleeps,
          writes, opened, fs0, loaded0>>

-----------------------------------------------------------------------------
(* Bounds *)

MaxChunks == 2        \* videos of up to MaxChunks chunks
MaxRuns == 2          \* calls made one after the other
MaxDuration == 20     \* SegSpec: total_duration ranges over 0..MaxDuration
MaxChunkLength == 6   \* SegSpec: chunk_length ranges over 1..MaxChunkLength

MaxPaceChunks == 22   \* PaceSpec: videos of up to MaxPaceChunks chunks
MaxSpread == 3        \* TextSpec: response lengths within MaxSpread of the cap

(* Program constants *)

ChunkDuration == 30       \* self.chunk_duration
MaxSummaryChars == 1500   \* self.max_summary_chars

\* Python's None and a present value: the empty and the one-element sequence
None == <<>>
Some(x) == <<x>>

NoExc == "none"

-----------------------------------------------------------------------------
(* Texts *)

Marker == "Error processing chunk"

X(n) == <<[tok |-> "x", n |-> n]>>

RECURSIVE TextLen(_)
TextLen(t) == IF t = <<>> THEN 0 ELSE Head(t).n + TextLen(Tail(t))

\* Python's `s in text`, for a literal s
Contains(t, s) == \E k \in DOMAIN t : t[k].tok = s

\* Python's text[:k]
RECURSIVE Take(_, _)
Take(t, k) ==
    IF k <= 0 \/ t = <<>> THEN <<>>
    ELSE IF Head(t).n <= k THEN <<Head(t)>> \o Take(Tail(t), k - Head(t).n)
    ELSE <<[tok |-> IF Head(t).tok = "x" THEN "x" ELSE "cut", n |-> k]>>

Ellipsis == <<[tok |-> "...", n |-> 3]>>

\* f"Error processing chunk: {str(e)}"
ErrorText(msg) == <<[tok |-> Marker, n |-> 22], [tok |-> ": ", n |-> 2]>> \o msg

\* str(e) of the errors the collaborators raise
RateLimitMsg == <<[tok |-> "429", n |-> 3], [tok |-> "x", n |-> 27]>>
\* (a message without "429" is a run of ordinary characters)
OtherMsg == X(30)
DecodeMsg == X(30)

Has429(msg) == Contains(msg, "429")

\* Outcome of a call of a collaborator: a value, or an exception with str(e) = msg
Ok(t) == [kind |-> "ok", text |-> t]
Err(msg) == [kind |-> "err", text |-> msg]

\* Outcomes of one call of model.generate_content followed by response.text
RateLimited == Err(RateLimitMsg)
OtherFailure == Err(OtherMsg)

ResponseText == X(40)

\* What the environment does for one chunk during one call: whether get_frame
\* raises, and the outcomes of the first and of the second request for the chunk.
Envs ==
    { [decode_fails |-> TRUE,  script |-> <<Ok(ResponseText), Ok(ResponseText)>>],
      [decode_fails |-> FALSE, script |-> <<Ok(ResponseText), Ok(ResponseText)>>],
      [decode_fails |-> FALSE, script |-> <<OtherFailure, Ok(ResponseText)>>],
      [decode_fails |-> FALSE, script |-> <<RateLimited, Ok(ResponseText)>>],
      [decode_fails |-> FALSE, script |-> <<RateLimited, RateLimited>>] }

NoEnv == [decode_fails |-> FALSE, script |-> <<>>]

IngestOutcomes == {"ok", "missing", "unreadable"}

-----------------------------------------------------------------------------
(* Paths *)

Path(d, s, e) == [dir |-> d, stem |-> s, ext |-> e]

VideoPath == Path("videos", "clip", ".mp4")

basename(p) == Path("", p.stem, p.ext)           \* os.path.basename
splitext0(name) == name.stem                     \* os.path.splitext(name)[0]
join(folder, name) == Path(folder, name.stem, name.ext)   \* os.path.join

\* f"{video_name}_summary.json"
SummaryName(video_name) == Path("", video_name \o "_summary", ".json")

\* save_summary_json: the path written when output_path is None
DefaultOutputPath(video_summary) ==
    join("output", SummaryName(splitext0(video_summary.video_name)))

\* check_existing_summary: the path probed
summary_filename(video_path) == SummaryName(splitext0(basename(video_path)))

Paths == { DefaultOutputPath([video_name |-> basename(VideoPath)]),
           summary_filename(VideoPath) }

-----------------------------------------------------------------------------
(* segment_video *)

\* int(np.ceil(a / b)) for a >= 0, b > 0
Ceil(a, b) == IF a % b = 0 THEN a \div b ELSE (a \div b) + 1

Min(a, b) == IF a <= b THEN a ELSE b

\* segment_video without the clamp of end_time to the video's duration
chunk_info_at_unclamped(k, duration, chunk_duration) ==
    LET start_time == k * chunk_duration
        end_time == (k + 1) * chunk_duration
    IN [chunk_number |-> k + 1,
        start_time |-> start_time,
        end_time |-> end_time,
        duration |-> end_time - start_time,
        timestamp |-> <<start_time \div 60, start_time % 60,
                        end_time \div 60, end_time % 60>>]

chunk_info_at(k, duration, chunk_duration) ==
    LET start_time == k * chunk_duration
        end_time == Min((k + 1) * chunk_duration, duration)
    IN [chunk_number |-> k + 1,
        start_time |-> start_time,
        end_time |-> end_time,
        duration |-> end_time - start_time,
        timestamp |-> <<start_time \div 60, start_time % 60,
                        end_time \div 60, end_time % 60>>]

segment_video(duration, chunk_duration) ==
    [k \in 1..Ceil(duration, chunk_duration) |->
        chunk_info_at(k - 1, duration, chunk_duration)]

-----------------------------------------------------------------------------
(* summarize_chunk *)

\* chunk.get_frame raises, or the frames are returned (their content is not modelled)
extract_frames_and_audio(e) ==
    IF e.decode_fails THEN Err(DecodeMsg) ELSE Ok(<<>>)

\* the truncation cutting at max_summary_chars instead of 3 characters before it
truncate_at_cap(summary) ==
    IF TextLen(summary) > MaxSummaryChars
    THEN Take(summary, MaxSummaryChars) \o Ellipsis
    ELSE summary

\* if len(summary) > self.max_summary_chars: summary = summary[:max-3] + "..."
truncate(summary) ==
    IF TextLen(summary) > MaxSummaryChars
    THEN Take(summary, MaxSummaryChars - 3) \o Ellipsis
    ELSE summary

\* What summarize_chunk hands to its caller: a returned summary or a raised
\* exception, and how many requests it sent to the remote service.
Returned(summary, called) ==
    [raised |-> FALSE, msg |-> <<>>, summary |-> summary, called |-> called]
Raised(msg, called) ==
    [raised |-> TRUE, msg |-> msg, summary |-> <<>>, called |-> called]

\* summarize_chunk letting the exception through to its caller
summarize_chunk_reraise(msg, called) == Raised(msg, called)

\* except Exception as e: return f"Error processing chunk: {str(e)}"
summarize_chunk_except(msg, called) == Returned(ErrorText(msg), called)

\* e: the environment for this chunk; k: 1 for the first request of the chunk
\* in this call, 2 for the second
summarize_chunk(e, k) ==
    LET frames == extract_frames_and_audio(e)
        response == e.script[k]
    IN IF frames.kind = "err" THEN summarize_chunk_except(frames.text, 0)
       ELSE IF response.kind = "err" THEN summarize_chunk_except(response.text, 1)
       ELSE Returned(truncate(response.text), 1)

-----------------------------------------------------------------------------
(* The artifact *)

\* the chunk_data built for one (chunk_info, summary) pair
chunk_data(chunk_info, summary) ==
    [chunk_number |-> chunk_info.chunk_number,
     timestamp |-> chunk_info.timestamp,
     start_time |-> chunk_info.start_time,
     end_time |-> chunk_info.end_time,
     duration |-> chunk_info.duration,
     summary |-> summary,
     summary_length |-> TextLen(summary)]

\* the video_summary dict; date is datetime.now()
video_summary_dict(video_info, summaries, date) ==
    [video_name |-> video_info.filename,
     video_path |-> video_info.path,
     total_duration |-> video_info.duration,
     fps |-> video_info.fps,
     size |-> video_info.size,
     processing_date |-> date,
     total_chunks |-> Len(summaries),
     chunk_duration |-> self_chunk_duration,
     chunks |-> [k \in DOMAIN summaries |->
                    chunk_data(summaries[k][1], summaries[k][2])]]

\* create_video_summary_json keeping only the chunks that were summarized
create_video_summary_json_skip_failed(video_info, summaries, date) ==
    video_summary_dict(video_info,
                       SelectSeq(summaries, LAMBDA cs : ~Contains(cs[2], Marker)),
                       date)

\* create_video_summary_json listing the newest chunk first
create_video_summary_json_reversed(video_info, summaries, date) ==
    video_summary_dict(video_info,
                       [k \in DOMAIN summaries |-> summaries[Len(summaries) + 1 - k]],
                       date)

create_video_summary_json(video_info, summaries, date) ==
    video_summary_dict(video_info, summaries, date)

\* save_summary_json: the path written
save_path(video_summary, out) ==
    IF out = None THEN DefaultOutputPath(video_summary) ELSE out[1]

\* save_summary_json writing the default path as well as output_path
save_summary_json_both(disk, video_summary, out) ==
    [disk EXCEPT ![save_path(video_summary, out)] = Some(video_summary),
                 ![DefaultOutputPath(video_summary)] = Some(video_summary)]

\* save_summary_json: the disk after json.dump
save_summary_json(disk, video_summary, out) ==
    [disk EXCEPT ![save_path(video_summary, out)] = Some(video_summary)]

\* Files that json.load cannot parse: text that is not JSON, and bytes that
\* are not UTF-8 (the file is opened with encoding='utf-8').  Each is named
\* by the exception that json.load(f) raises on it.
BadJson == [corrupt |-> "JSONDecodeError"]
BadUtf8 == [corrupt |-> "UnicodeDecodeError"]
CorruptFiles == {BadJson, BadUtf8}

\* the exception json.load(f) raises on a file of this content, or NoExc
load_error(content) ==
    IF "corrupt" \in DOMAIN content THEN content.corrupt ELSE NoExc

\* check_existing_summary: the exception that leaves it, or NoExc
\* (except (json.JSONDecodeError, FileNotFoundError): return None, None)
check_existing_summary_raises(disk, video_path) ==
    LET name == summary_filename(video_path)
    IN IF name \in DOMAIN disk /\ disk[name] # None
          /\ load_error(disk[name][1]) \notin {NoExc, "JSONDecodeError", "FileNotFoundError"}
       THEN load_error(disk[name][1])
       ELSE NoExc

\* check_existing_summary: (existing_summary, summary_filename) or (None, None)
check_existing_summary(disk, video_path) ==
    LET name == summary_filename(video_path)
    IN IF name \in DOMAIN disk /\ disk[name] # None
          /\ load_error(disk[name][1]) = NoExc
       THEN <<disk[name][1], name>>
       ELSE None

\* 'Error processing chunk' in chunk.get('summary', '')
is_failed(chunk) == Contains(chunk.summary, Marker)

\* the failed_chunks list built by process_video and resume_failed_processing
classify_failed(summary) ==
    { summary.chunks[k].chunk_number :
        k \in { j \in DOMAIN summary.chunks : is_failed(summary.chunks[j]) } }

\* the mode process_video chooses; answer: the user typed y, yes or nothing
process_video_mode(found, answer) ==
    IF found = None THEN "fresh"
    ELSE IF classify_failed(found[1]) # {}
         THEN (IF answer THEN "resume" ELSE "fresh")
         ELSE (IF answer THEN "reuse" ELSE "fresh")

\* the reuse branch refreshing the processing date, as the resume path does
reuse_return_touch(summary, path) ==
    <<[summary EXCEPT !.processing_date = runs + 1], path>>

\* process_video's reuse branch: return existing_summary, existing_path
reuse_return(summary, path) == <<summary, path>>

\* ingest_video: video_info
video_info_of(v) ==
    [path |-> v.path, duration |-> v.duration, fps |-> v.fps, size |-> v.size,
     filename |-> basename(v.path)]

-----------------------------------------------------------------------------
(* One iteration of process_video's loop *)

\* the delay without its tiers
pacing_delay_flat(idx) == 2

\* Progressive delay after a successful summarize_chunk; idx is 0-based
pacing_delay(idx) == IF idx < 10 THEN 2 ELSE IF idx < 20 THEN 4 ELSE 6

\* the loop body retrying after any failed summary, not only after a 429
fresh_iteration_retry_any(idx, e) ==
    LET r1 == summarize_chunk(e, 1)
        r2 == summarize_chunk(e, 2)
    IN IF Contains(r1.summary, Marker)
       THEN [summary |-> r2.summary, attempts |-> 2, calls |-> r1.called + r2.called,
             sleeps |-> <<<<60, 1>>>>]
       ELSE [summary |-> r1.summary, attempts |-> 1, calls |-> r1.called,
             sleeps |-> <<<<pacing_delay(idx), 1>>>>]

\* What one iteration does: the summary appended, the summarize_chunk
\* invocations, the remote requests and the sleeps, each sleep with the
\* number of summarize_chunk invocations made before it
fresh_iteration(idx, e) ==
    LET r1 == summarize_chunk(e, 1)
        r2 == summarize_chunk(e, 2)
    IN IF ~r1.raised
       THEN [summary |-> r1.summary, attempts |-> 1, calls |-> r1.called,
             sleeps |-> <<<<pacing_delay(idx), 1>>>>]
       ELSE IF Has429(r1.msg)
       THEN [summary |-> IF r2.raised THEN ErrorText(r2.msg) ELSE r2.summary,
             attempts |-> 2, calls |-> r1.called + r2.called,
             sleeps |-> <<<<60, 1>>>>]
       ELSE [summary |-> ErrorText(r1.msg), attempts |-> 1, calls |-> r1.called,
             sleeps |-> <<>>]

-----------------------------------------------------------------------------
(* One iteration of resume_failed_processing's loop *)

\* the update loop leaving summary_length as it was
update_entry_keep_length(summary, chunk_number, text) ==
    LET hits == { k \in DOMAIN summary.chunks :
                    summary.chunks[k].chunk_number = chunk_number }
    IN IF hits = {} THEN summary
       ELSE LET k == CHOOSE m \in hits : \A o \in hits : m <= o
            IN [summary EXCEPT !.chunks[k].summary = text]

\* the update loop writing the first entry, whatever its chunk_number
update_entry_first(summary, chunk_number, text) ==
    IF summary.chunks = <<>> THEN summary
    ELSE [summary EXCEPT !.chunks[1].summary = text,
                         !.chunks[1].summary_length = TextLen(text)]

\* the update loop without its chunk_number test
update_entry_all(summary, chunk_number, text) ==
    [summary EXCEPT !.chunks =
        [k \in DOMAIN summary.chunks |->
            [summary.chunks[k] EXCEPT !.summary = text,
                                      !.summary_length = TextLen(text)]]]

\* for i, existing_chunk in enumerate(...): if chunk_number matches: update; break
update_entry(summary, chunk_number, text) ==
    LET hits == { k \in DOMAIN summary.chunks :
                    summary.chunks[k].chunk_number = chunk_number }
    IN IF hits = {} THEN summary
       ELSE LET k == CHOOSE m \in hits : \A o \in hits : m <= o
            IN [summary EXCEPT !.chunks[k].summary = text,
                               !.chunks[k].summary_length = TextLen(text)]

\* the resume loop without its failed_chunks test
resume_selects_all(chunk_number, failed) == TRUE

\* if chunk_info['chunk_number'] in failed_chunks
resume_selects(chunk_number, failed) == chunk_number \in failed

resume_iteration(summary, failed, info, e) ==
    LET r1 == summarize_chunk(e, 1)
        r2 == summarize_chunk(e, 2)
    IN IF ~resume_selects(info.chunk_number, failed)
       THEN [summary |-> summary, attempts |-> 0, calls |-> 0, sleeps |-> <<>>]
       ELSE IF ~r1.raised
       THEN [summary |-> update_entry(summary, info.chunk_number, r1.summary),
             attempts |-> 1, calls |-> r1.called, sleeps |-> <<<<3, 0>>>>]
       ELSE IF Has429(r1.msg)
       THEN [summary |-> IF r2.raised THEN summary
                         ELSE update_entry(summary, info.chunk_number, r2.summary),
             attempts |-> 2, calls |-> r1.called + r2.called,
             sleeps |-> <<<<3, 0>>, <<60, 1>>>>]
       ELSE [summary |-> summary, attempts |-> 1, calls |-> r1.called,
             sleeps |-> <<<<3, 0>>>>]

-----------------------------------------------------------------------------
(* State machine *)

Durations ==
    {0} \cup { (k - 1) * ChunkDuration + 5 : k \in 1..MaxChunks }

ChunkNumbers == 1..(MaxChunks + 1)

\* A VideoSummarizer whose chunk_duration is cd, and a video of duration d
\* whose chunks are numbered within cn, with the files of disk on the disk
InitOver(d, cd, cn, disk) ==
    /\ self_chunk_duration = cd
    /\ video = [path |-> VideoPath, duration |-> d, fps |-> 25, size |-> <<640, 360>>]
    /\ fs = disk
    /\ runs = 0
    /\ pc = "idle"
    /\ mode = "none"
    /\ output_path = None
    /\ existing_path = None
    /\ existing_summary = None
    /\ failed_chunks = {}
    /\ chunks = <<>>
    /\ i = 0
    /\ chunk_summaries = <<>>
    /\ handles = {}
    /\ ret = None
    /\ exc = NoExc
    /\ env = [c \in cn |-> NoEnv]
    /\ attempts = [c \in cn |-> 0]
    /\ calls = [c \in cn |-> 0]
    /\ sleeps = <<>>
    /\ writes = <<>>
    /\ opened = {}
    /\ fs0 = fs
    /\ loaded0 = None

NoFiles == [p \in Paths |-> None]

InitWith(d, cd) == InitOver(d, cd, ChunkNumbers, NoFiles)

Init == \E d \in Durations : InitWith(d, ChunkDuration)

\* the call ends with exception e
Raise(e) ==
    /\ pc' = "raised"
    /\ exc' = e

\* A new call starts: nothing of the previous call's frame is left
NewCall ==
    /\ pc \in {"idle", "done", "raised"}
    /\ runs < MaxRuns
    /\ runs' = runs + 1
    /\ existing_summary' = None
    /\ failed_chunks' = {}
    /\ chunks' = <<>>
    /\ i' = 0
    /\ chunk_summaries' = <<>>
    /\ handles' = {}
    /\ env' = [c \in DOMAIN env |-> NoEnv]
    /\ attempts' = [c \in DOMAIN attempts |-> 0]
    /\ calls' = [c \in DOMAIN calls |-> 0]
    /\ sleeps' = <<>>
    /\ writes' = <<>>
    /\ opened' = {}
    /\ fs0' = fs
    /\ loaded0' = None
    /\ UNCHANGED <<self_chunk_duration, video, fs>>

\* process_video(video_path, output_path, force_reprocess) up to the choice of
\* the mode; answer is what the user types at the prompt
ProcessVideo(out, force_reprocess, answer) ==
    LET found == IF force_reprocess THEN None
                 ELSE check_existing_summary(fs, video.path)
        escaped == IF force_reprocess THEN NoExc
                   ELSE check_existing_summary_raises(fs, video.path)
        m == process_video_mode(found, answer)
    IN /\ NewCall
       /\ output_path' = out
       /\ IF escaped # NoExc
          THEN /\ Raise(escaped)
               /\ mode' = "none"
               /\ ret' = None
               /\ existing_path' = None
          ELSE /\ mode' = m
               /\ exc' = NoExc
               /\ IF m = "reuse"
                  THEN /\ pc' = "done"
                       /\ ret' = reuse_return(found[1], found[2])
                       /\ existing_path' = None
                  ELSE IF m = "resume"
                  THEN /\ pc' = "resume_load"
                       /\ ret' = None
                       /\ existing_path' = Some(found[2])
                  ELSE /\ pc' = "fresh_ingest"
                       /\ ret' = None
                       /\ existing_path' = None

\* resume_failed_processing(video_path, existing_summary_path) called directly
ResumeFailedProcessing(p) ==
    /\ NewCall
    /\ output_path' = None
    /\ mode' = "resume"
    /\ pc' = "resume_load"
    /\ exc' = NoExc
    /\ ret' = None
    /\ existing_path' = Some(p)

\* datetime.now(): calls are made one after the other, so the time read by
\* the k-th call is later than any time read before; it is modelled as k
now == runs

AllHandles(cs) == {0} \cup DOMAIN cs

\* process_video: ingest_video and segment_video
FreshIngest(st) ==
    /\ pc = "fresh_ingest"
    /\ IF st = "missing"
       THEN /\ Raise("FileNotFoundError")
            /\ UNCHANGED <<chunks, handles, opened>>
       ELSE IF st = "unreadable"
       THEN /\ Raise("Exception")
            /\ UNCHANGED <<chunks, handles, opened>>
       ELSE LET cs == segment_video(video.duration, self_chunk_duration)
            IN /\ chunks' = cs
               /\ handles' = AllHandles(cs)
               /\ opened' = AllHandles(cs)
               /\ pc' = "fresh_loop"
               /\ exc' = NoExc
    /\ UNCHANGED <<self_chunk_duration, video, fs, runs, mode, output_path,
                   existing_path, existing_summary, failed_chunks, i,
                   chunk_summaries, ret, env, attempts, calls, sleeps, writes,
                   fs0, loaded0>>

Stamp(c, secs) == [k \in DOMAIN secs |-> <<c, secs[k][1], secs[k][2]>>]

\* process_video: one iteration of the loop over chunks
FreshChunk(e) ==
    /\ pc = "fresh_loop"
    /\ i < Len(chunks)
    /\ LET info == chunks[i + 1]
           c == info.chunk_number
           it == fresh_iteration(i, e)
       IN /\ chunk_summaries' = Append(chunk_summaries, <<info, it.summary>>)
          /\ env' = [env EXCEPT ![c] = e]
          /\ attempts' = [attempts EXCEPT ![c] = @ + it.attempts]
          /\ calls' = [calls EXCEPT ![c] = @ + it.calls]
          /\ sleeps' = sleeps \o Stamp(c, it.sleeps)
    /\ i' = i + 1
    /\ UNCHANGED <<self_chunk_duration, video, fs, runs, pc, mode,
                   output_path, existing_path, existing_summary, failed_chunks,
                   chunks, handles, ret, exc, writes, opened, fs0, loaded0>>

\* process_video: create_video_summary_json, save_summary_json, clean up, return
FreshFinish(disk_ok) ==
    /\ pc = "fresh_loop"
    /\ i = Len(chunks)
    /\ LET video_summary ==
               create_video_summary_json(video_info_of(video), chunk_summaries, now)
       IN /\ IF disk_ok
             THEN /\ fs' = save_summary_json(fs, video_summary, output_path)
                  /\ writes' = Append(writes, save_path(video_summary, output_path))
                  /\ handles' = {}
                  /\ ret' = <<video_summary, save_path(video_summary, output_path)>>
                  /\ pc' = "done"
                  /\ exc' = NoExc
             ELSE /\ Raise("OSError")
                  /\ UNCHANGED <<fs, writes, handles, ret>>
    /\ UNCHANGED <<self_chunk_duration, video, runs, mode, output_path,
                   existing_path, existing_summary, failed_chunks, chunks, i,
                   chunk_summaries, env, attempts, calls, sleeps, opened, fs0,
                   loaded0>>

\* the handler saving the loaded document, its date refreshed, before re-raising
resume_except_saves(disk, summary, path) ==
    save_summary_json(disk, [summary EXCEPT !.processing_date = now], Some(path))

\* except Exception as e: print(...); raise -- the disk the handler of
\* resume_failed_processing leaves when ingest_video raised
resume_except(disk, summary, path) == disk

\* resume_failed_processing: load, classify, ingest_video and segment_video
ResumeLoad(st) ==
    /\ pc = "resume_load"
    /\ IF fs[existing_path[1]] = None
       THEN /\ Raise("FileNotFoundError")
            /\ UNCHANGED <<existing_summary, loaded0, failed_chunks, chunks,
                           handles, opened, ret, fs>>
       ELSE IF load_error(fs[existing_path[1]][1]) # NoExc
       THEN /\ Raise(load_error(fs[existing_path[1]][1]))
            /\ UNCHANGED <<existing_summary, loaded0, failed_chunks, chunks,
                           handles, opened, ret, fs>>
       ELSE LET loaded == fs[existing_path[1]][1]
                failed == classify_failed(loaded)
                cs == segment_video(video.duration, self_chunk_duration)
            IN /\ existing_summary' = Some(loaded)
               /\ loaded0' = Some(loaded)
               /\ failed_chunks' = failed
               /\ IF failed = {}
                  THEN /\ pc' = "done"
                       /\ exc' = NoExc
                       /\ ret' = <<loaded, existing_path[1]>>
                       /\ UNCHANGED <<chunks, handles, opened, fs>>
                  ELSE IF st = "missing"
                  THEN /\ Raise("FileNotFoundError")
                       /\ fs' = resume_except(fs, loaded, existing_path[1])
                       /\ UNCHANGED <<chunks, handles, opened, ret>>
                  ELSE IF st = "unreadable"
                  THEN /\ Raise("Exception")
                       /\ fs' = resume_except(fs, loaded, existing_path[1])
                       /\ UNCHANGED <<chunks, handles, opened, ret>>
                  ELSE /\ chunks' = cs
                       /\ handles' = AllHandles(cs)
                       /\ opened' = AllHandles(cs)
                       /\ pc' = "resume_loop"
                       /\ exc' = NoExc
                       /\ UNCHANGED <<ret, fs>>
    /\ UNCHANGED <<self_chunk_duration, video, runs, mode, output_path,
                   existing_path, i, chunk_summaries, env, attempts, calls,
                   sleeps, writes, fs0>>

\* resume_failed_processing: one iteration of the loop over chunks
ResumeChunk(e) ==
    /\ pc = "resume_loop"
    /\ i < Len(chunks)
    /\ LET info == chunks[i + 1]
           c == info.chunk_number
           it == resume_iteration(existing_summary[1], failed_chunks, info, e)
       IN /\ existing_summary' = Some(it.summary)
          /\ env' = [env EXCEPT ![c] = IF it.attempts = 0 THEN NoEnv ELSE e]
          /\ attempts' = [attempts EXCEPT ![c] = @ + it.attempts]
          /\ calls' = [calls EXCEPT ![c] = @ + it.calls]
          /\ sleeps' = sleeps \o Stamp(c, it.sleeps)
    /\ i' = i + 1
    /\ UNCHANGED <<self_chunk_duration, video, fs, runs, pc, mode,
                   output_path, existing_path, failed_chunks, chunks,
                   chunk_summaries, handles, ret, exc, writes, opened, fs0,
                   loaded0>>

\* resume_failed_processing: refresh processing_date, save, clean up, return
ResumeFinish(disk_ok) ==
    /\ pc = "resume_loop"
    /\ i = Len(chunks)
    /\ LET updated == [existing_summary[1] EXCEPT !.processing_date = now]
       IN /\ existing_summary' = Some(updated)
          /\ IF disk_ok
             THEN /\ fs' = save_summary_json(fs, updated, existing_path)
                  /\ writes' = Append(writes, save_path(updated, existing_path))
                  /\ handles' = {}
                  /\ ret' = <<updated, save_path(updated, existing_path)>>
                  /\ pc' = "done"
                  /\ exc' = NoExc
             ELSE /\ Raise("OSError")
                  /\ UNCHANGED <<fs, writes, handles, ret>>
    /\ UNCHANGED <<self_chunk_duration, video, runs, mode, output_path,
                   existing_path, failed_chunks, chunks, i, chunk_summaries, env,
                   attempts, calls, sleeps, opened, fs0, loaded0>>

OutputPaths == {None, Some(summary_filename(VideoPath))}

Next ==
    \/ \E out \in OutputPaths, force_reprocess \in BOOLEAN, answer \in BOOLEAN :
          ProcessVideo(out, force_reprocess, answer)
    \/ \E p \in Paths : ResumeFailedProcessing(p)
    \/ \E st \in IngestOutcomes : FreshIngest(st)
    \/ \E e \in Envs : FreshChunk(e)
    \/ \E ok \in BOOLEAN : FreshFinish(ok)
    \/ \E st \in IngestOutcomes : ResumeLoad(st)
    \/ \E e \in Envs : ResumeChunk(e)
    \/ \E ok \in BOOLEAN : ResumeFinish(ok)

Spec == Init /\ [][Next]_vars

-----------------------------------------------------------------------------
(* segment_video on its own, over every duration and chunk length *)

SegInit ==
    \E d \in 0..MaxDuration, cd \in 1..MaxChunkLength : InitWith(d, cd)

SegmentVideo ==
    /\ pc = "idle"
    /\ chunks' = segment_video(video.duration, self_chunk_duration)
    /\ pc' = "segmented"
    /\ UNCHANGED <<self_chunk_duration, video, fs, runs, mode, output_path,
                   existing_path, existing_summary, failed_chunks, i,
                   chunk_summaries, handles, ret, exc, env, attempts, calls,
                   sleeps, writes, opened, fs0, loaded0>>

SegNext == SegmentVideo

SegSpec == SegInit /\ [][SegNext]_vars

-----------------------------------------------------------------------------
(* A one-chunk video and a remote service that answers with texts of lengths *)
(* around max_summary_chars, some of which contain the failure marker        *)

MarkerText == <<[tok |-> Marker, n |-> 22]>>

\* response.text of the answers the remote service gives
ResponseTexts ==
    { X(n) : n \in (MaxSummaryChars - MaxSpread)..(MaxSummaryChars + MaxSpread) }
      \cup { ResponseText,
             X(10) \o MarkerText \o X(8),
             X(MaxSummaryChars - 10) \o MarkerText,
             X(MaxSummaryChars - 3) \o MarkerText }

TextEnvs ==
    { [decode_fails |-> FALSE, script |-> <<Ok(t), Ok(t)>>] : t \in ResponseTexts }
      \cup { [decode_fails |-> FALSE, script |-> <<OtherFailure, Ok(ResponseText)>>] }

TextInit == InitWith(ChunkDuration, ChunkDuration)

TextNext ==
    \/ \E out \in OutputPaths, force_reprocess \in BOOLEAN, answer \in BOOLEAN :
          ProcessVideo(out, force_reprocess, answer)
    \/ \E p \in Paths : ResumeFailedProcessing(p)
    \/ FreshIngest("ok")
    \/ \E e \in TextEnvs : FreshChunk(e)
    \/ FreshFinish(TRUE)
    \/ ResumeLoad("ok")
    \/ \E e \in TextEnvs : ResumeChunk(e)
    \/ ResumeFinish(TRUE)

TextSpec == TextInit /\ [][TextNext]_vars

-----------------------------------------------------------------------------
(* Long videos: the remote service answers every request except, possibly,   *)
(* the one for the last chunk of the video                                   *)

OkEnv == [decode_fails |-> FALSE, script |-> <<Ok(ResponseText), Ok(ResponseText)>>]

\* the environments for the chunk the loop is about to process
PaceEnvs == IF i + 1 = Len(chunks) THEN Envs ELSE {OkEnv}

PaceInit ==
    \E n \in 1..MaxPaceChunks :
        InitOver((n - 1) * ChunkDuration + 5, ChunkDuration, 1..MaxPaceChunks, NoFiles)

PaceNext ==
    \/ \E out \in OutputPaths, force_reprocess \in BOOLEAN, answer \in BOOLEAN :
          ProcessVideo(out, force_reprocess, answer)
    \/ \E p \in Paths : ResumeFailedProcessing(p)
    \/ FreshIngest("ok")
    \/ \E e \in PaceEnvs : FreshChunk(e)
    \/ FreshFinish(TRUE)
    \/ ResumeLoad("ok")
    \/ \E e \in PaceEnvs : ResumeChunk(e)
    \/ ResumeFinish(TRUE)

PaceSpec == PaceInit /\ [][PaceNext]_vars

-----------------------------------------------------------------------------
(* A one-chunk video whose earlier artifact, at one of the two paths, is a   *)
(* file that cannot be parsed                                                *)

CorruptInit ==
    \E q \in Paths, f \in CorruptFiles :
        InitOver(ChunkDuration, ChunkDuration, ChunkNumbers,
                 [p \in Paths |-> IF p = q THEN Some(f) ELSE None])

CorruptSpec == CorruptInit /\ [][Next]_vars

-----------------------------------------------------------------------------
(* Properties *)

Range(q) == { q[k] : k \in DOMAIN q }

FreshDone == mode = "fresh" /\ pc = "done"
ResumeSaved == mode = "resume" /\ pc = "done" /\ writes # <<>>

\* chunk numbers whose entry in a document carries the failure marker
Marked(doc) ==
    { c \in ChunkNumbers :
        \E k \in DOMAIN doc.chunks :
            /\ doc.chunks[k].chunk_number = c
            /\ Contains(doc.chunks[k].summary, Marker) }

\* the environment answers the chunk's first request with 429 and would
\* answer its second request with a text
RateLimitedThenOk(e) ==
    /\ e # NoEnv
    /\ ~e.decode_fails
    /\ e.script[1] = RateLimited
    /\ e.script[2].kind = "ok"

\* C1: in a fresh run, a chunk whose first request fails with 429 and whose
\* retry succeeds is stored in the saved artifact with the successful text,
\* not with a text carrying the 'Error processing chunk' marker.
C1_RetrySuccessIsStored ==
    FreshDone =>
        \A k \in DOMAIN chunks :
            RateLimitedThenOk(env[k]) =>
                /\ Len(fs[ret[2]][1].chunks) >= k
                /\ fs[ret[2]][1].chunks[k].summary = truncate(env[k].script[2].text)
                /\ ~Contains(fs[ret[2]][1].chunks[k].summary, Marker)

\* C2: in a fresh or resume run, after a request for a chunk failed with 429
\* the run sleeps 60 s and sends exactly one more request for that chunk.
C2_RateLimitWaitsAndRetriesOnce ==
    (mode \in {"fresh", "resume"} /\ pc = "done") =>
        \A c \in ChunkNumbers :
            (calls[c] >= 1 /\ env[c].script[1] = RateLimited) =>
                /\ <<c, 60, 1>> \in Range(sleeps)
                /\ calls[c] = 2

\* C3: a resume run invokes summarize_chunk for a chunk if and only if the
\* chunk's entry in the loaded artifact carries the marker: nothing is invoked
\* or requested for an unmarked chunk at any point of the run, every chunk the
\* loop has passed was invoked exactly when it is marked, and a run that saved
\* has invoked every marked chunk.
C3_ResumeInvokesExactlyFailed ==
    (mode = "resume" /\ loaded0 # None) =>
        /\ \A c \in ChunkNumbers :
              (attempts[c] > 0 \/ calls[c] > 0) => c \in Marked(loaded0[1])
        /\ pc = "resume_loop" =>
              \A c \in 1..i : (c \in Marked(loaded0[1])) <=> (attempts[c] >= 1)
        /\ ResumeSaved =>
              \A c \in Marked(loaded0[1]) : attempts[c] >= 1

C3_Witness ==
    /\ ResumeSaved
    /\ Marked(loaded0[1]) = {2}
    /\ attempts[1] = 0 /\ calls[1] = 0
    /\ attempts[2] = 1 /\ calls[2] = 1

\* C4: a resume run writes only the path it loaded from, and the document it
\* saves differs from the one it loaded only in processing_date and in the
\* summary and summary_length of the entries that carried the marker; a resume
\* run that has not saved has left the disk as it was.
C4_ResumeChangesOnlyFailedEntries ==
    (mode = "resume") =>
        IF ResumeSaved
        THEN LET p == existing_path[1]
                 old == loaded0[1]
                 new == fs[p][1]
             IN /\ writes = <<p>>
                /\ fs0[p] = Some(old)
                /\ ret = <<new, p>>
                /\ \A q \in Paths \ {p} : fs[q] = fs0[q]
                /\ [new EXCEPT !.processing_date = old.processing_date,
                               !.chunks = old.chunks] = old
                /\ new.processing_date = runs
                /\ DOMAIN new.chunks = DOMAIN old.chunks
                /\ \A k \in DOMAIN old.chunks :
                      IF Contains(old.chunks[k].summary, Marker)
                      THEN [new.chunks[k] EXCEPT
                               !.summary = old.chunks[k].summary,
                               !.summary_length = old.chunks[k].summary_length]
                           = old.chunks[k]
                      ELSE new.chunks[k] = old.chunks[k]
        ELSE fs = fs0 /\ writes = <<>>

C4_Witness ==
    /\ ResumeSaved
    /\ Len(loaded0[1].chunks) = 2
    /\ ~Contains(loaded0[1].chunks[1].summary, Marker)
    /\ Contains(loaded0[1].chunks[2].summary, Marker)
    /\ ~Contains(fs[existing_path[1]][1].chunks[2].summary, Marker)
    /\ fs[existing_path[1]][1].processing_date # loaded0[1].processing_date

\* C5: after a fresh run saved to the default path, check_existing_summary
\* for the same video finds the artifact just saved, at the path it was saved.
C5_DefaultSaveIsDetected ==
    (FreshDone /\ output_path = None) =>
        check_existing_summary(fs, video.path) = <<ret[1], ret[2]>>

\* C6: a reuse run opens no media, invokes and requests nothing, writes
\* nothing and returns the document on disk, which has no failed chunk, with
\* the path it was read from; the disk is as it was, so a second reuse run
\* reads and returns the same content.
C6_ReuseTouchesNothing ==
    (mode = "reuse" /\ pc = "done") =>
        LET p == summary_filename(video.path)
        IN /\ opened = {} /\ handles = {}
           /\ \A c \in ChunkNumbers : attempts[c] = 0 /\ calls[c] = 0
           /\ sleeps = <<>>
           /\ writes = <<>>
           /\ fs = fs0
           /\ fs0[p] # None
           /\ ret = <<fs0[p][1], p>>
           /\ Marked(ret[1]) = {}

C6_Witness ==
    /\ mode = "reuse" /\ pc = "done"
    /\ Len(ret[1].chunks) = 2

\* C7: a fresh run raises only from ingest_video or from saving, never from
\* the loop over chunks; during the loop every chunk passed has one recorded
\* summary; the saved artifact has one entry per chunk of the segmenter, in
\* order, each a successful text or the failure sentinel, and total_chunks is
\* the number of chunks.
C7_FreshRunContainsChunkFailures ==
    (mode = "fresh") =>
        /\ pc = "raised" =>
              \/ opened = {} /\ i = 0
              \/ exc = "OSError" /\ i = Len(chunks) /\ Len(chunk_summaries) = Len(chunks)
        /\ pc = "fresh_loop" =>
              /\ Len(chunk_summaries) = i
              /\ \A c \in 1..i : attempts[c] >= 1
        /\ pc = "done" =>
              LET doc == fs[ret[2]][1]
                  n == Len(segment_video(video.duration, self_chunk_duration))
              IN /\ doc = ret[1]
                 /\ Len(doc.chunks) = n
                 /\ doc.total_chunks = n
                 /\ \A k \in 1..n :
                       /\ doc.chunks[k].chunk_number = k
                       /\ attempts[k] >= 1
                       /\ IF env[k].decode_fails \/ env[k].script[1].kind = "err"
                          THEN /\ Len(doc.chunks[k].summary) >= 1
                               /\ doc.chunks[k].summary[1].tok = Marker
                          ELSE /\ doc.chunks[k].summary = truncate(env[k].script[1].text)
                               /\ ~Contains(doc.chunks[k].summary, Marker)

C7_Witness ==
    /\ FreshDone
    /\ Len(ret[1].chunks) = 2
    /\ env[1].script[1] = RateLimited
    /\ Contains(ret[1].chunks[1].summary, Marker)
    /\ ~Contains(ret[1].chunks[2].summary, Marker)

RECURSIVE SumDurations(_)
SumDurations(cs) ==
    IF cs = <<>> THEN 0 ELSE Head(cs).duration + SumDurations(Tail(cs))

\* C8: for total_duration >= 0 and chunk_length > 0 segment_video returns
\* ceil(total_duration / chunk_length) chunks numbered 1..n, the first
\* starting at 0, each ending where the next starts, the last ending at
\* total_duration, each of duration chunk_length except possibly the last,
\* which is the remainder; the durations sum to total_duration, and a
\* total_duration of 0 gives no chunk.
C8_SegmentsPartitionTheVideo ==
    (pc = "segmented") =>
        LET d == video.duration
            cl == self_chunk_duration
            n == Len(chunks)
        IN /\ n * cl >= d
           /\ n > 0 => (n - 1) * cl < d
           /\ d = 0 => chunks = <<>>
           /\ \A k \in 1..n :
                 /\ chunks[k].chunk_number = k
                 /\ chunks[k].duration = chunks[k].end_time - chunks[k].start_time
                 /\ chunks[k].duration > 0
                 /\ k = 1 => chunks[k].start_time = 0
                 /\ k < n => /\ chunks[k].end_time = chunks[k + 1].start_time
                             /\ chunks[k].duration = cl
                 /\ k = n => /\ chunks[k].end_time = d
                             /\ chunks[k].duration = d - (n - 1) * cl
           /\ SumDurations(chunks) = d

C8_Witness ==
    /\ pc = "segmented"
    /\ Len(chunks) = 3
    /\ chunks[3].duration < self_chunk_duration

\* C9: a fresh or resume run that opened the video and its chunk views has
\* closed all of them when it returns or raises.
C9_HandlesReleasedOnEveryExit ==
    (mode \in {"fresh", "resume"} /\ pc \in {"done", "raised"}) => handles = {}

\* the summary recorded so far for chunk c by the current call
Recorded(c) ==
    IF mode = "fresh"
    THEN { chunk_summaries[k][2] :
             k \in { j \in DOMAIN chunk_summaries :
                       chunk_summaries[j][1].chunk_number = c } }
    ELSE { existing_summary[1].chunks[k].summary :
             k \in { j \in DOMAIN existing_summary[1].chunks :
                       existing_summary[1].chunks[j].chunk_number = c } }

DecodeFailedAt(c) == attempts[c] >= 1 /\ env[c].decode_fails

\* C10 as stated: a frame-decoding failure is fatal, so no fresh or resume run
\* in which a chunk's frames failed to decode returns normally.
C10_DecodeFailureIsFatal ==
    (mode \in {"fresh", "resume"} /\ pc = "done") =>
        \A c \in ChunkNumbers : ~DecodeFailedAt(c)

\* C10 amended: a frame-decoding failure is contained by summarize_chunk: no
\* request is sent for the chunk, the failure sentinel is what is recorded for
\* it, and the run goes on: it raises only if saving fails after the last chunk.
C10_DecodeFailureIsContained ==
    (mode \in {"fresh", "resume"}) =>
        \A c \in ChunkNumbers :
            DecodeFailedAt(c) =>
                /\ calls[c] = 0
                /\ Recorded(c) = {ErrorText(DecodeMsg)}
                /\ pc \in {"fresh_loop", "resume_loop", "done", "raised"}
                /\ pc = "raised" => (exc = "OSError" /\ i = Len(chunks))

C10_Witness ==
    /\ mode \in {"fresh", "resume"} /\ pc = "done"
    /\ DecodeFailedAt(1)
    /\ attempts[2] = 1 /\ calls[2] = 1
    /\ fs[ret[2]][1].chunks[1].summary = ErrorText(DecodeMsg)

\* C11 as stated: summarize_chunk hands a failed request to its caller as a
\* failure outcome, not as a returned summary, and the outcome of a 429 is
\* told apart from the outcome of any other failure; a successful request is
\* handed over as a returned summary.
C11_FailuresAreTypedOutcomes ==
    \A c \in ChunkNumbers :
        (attempts[c] >= 1 /\ ~env[c].decode_fails) =>
            LET r == summarize_chunk(env[c], 1)
            IN IF env[c].script[1].kind = "ok"
               THEN ~r.raised
               ELSE /\ r.raised
                    /\ Has429(r.msg) <=> (env[c].script[1] = RateLimited)

\* the paths that hold a file
Artifacts == { p \in Paths : fs[p] # None }

\* C13: when only default paths have been used (no artifact was ever saved
\* under an explicit output_path), a call that saved has written the path the
\* detection step reads, and at most one artifact is on disk.
C13_SaveOverwritesTheDetectedArtifact ==
    (/\ pc = "done" /\ mode \in {"fresh", "resume"} /\ writes # <<>>
     /\ output_path = None
     /\ fs0[summary_filename(video.path)] = None) =>
        /\ Range(writes) = {summary_filename(video.path)}
        /\ Cardinality(Artifacts) <= 1

\* C15: in every document on disk, and in the document a call returns, the
\* entries are in strictly ascending chunk_number order.
Ascending(doc) ==
    \A k \in DOMAIN doc.chunks :
        k < Len(doc.chunks) =>
            doc.chunks[k].chunk_number < doc.chunks[k + 1].chunk_number

C15_EntriesInChunkOrder ==
    /\ \A p \in Artifacts : Ascending(fs[p][1])
    /\ (pc = "done" /\ ret # None) => Ascending(ret[1])

C15_Witness ==
    /\ ResumeSaved
    /\ Len(ret[1].chunks) = 2
    /\ attempts[1] = 1 /\ attempts[2] = 0
    /\ ~Contains(ret[1].chunks[1].summary, Marker)

\* C16: within one fresh or resume run the remote service is requested at
\* most twice for a chunk, and a second request is sent only for a chunk
\* whose first request failed with a 429.
C16_AtMostOneRetryAfterRateLimit ==
    (mode \in {"fresh", "resume"}) =>
        \A c \in ChunkNumbers :
            /\ calls[c] <= 2
            /\ calls[c] <= attempts[c]
            /\ calls[c] >= 2 => env[c].script[1] = RateLimited

C16_Witness ==
    /\ mode \in {"fresh", "resume"} /\ pc = "done"
    /\ calls[1] = 1 /\ env[1].script[1] = OtherFailure
    /\ calls[2] = 1 /\ env[2].script[1] = RateLimited

\* the paths whose content differs from what it was when the call started
Written == { p \in Paths : fs[p] # fs0[p] }

\* C17: a fresh or resume run writes nothing before its loop has passed the
\* last chunk; a fresh run that returns, and a resume run that returns after
\* re-processing a chunk, has written exactly one path, once, and that path
\* holds the document returned.
C17_OneWriteAfterTheLastChunk ==
    (mode \in {"fresh", "resume"}) =>
        /\ pc # "done" => (writes = <<>> /\ Written = {})
        /\ (pc = "done" /\ (mode = "fresh" \/ \E c \in ChunkNumbers : attempts[c] >= 1)) =>
              /\ Len(writes) = 1
              /\ Written = {writes[1]}
              /\ writes[1] = ret[2]
              /\ fs[ret[2]] = Some(ret[1])
              /\ i = Len(chunks)
              /\ mode = "fresh" => \A k \in DOMAIN chunks : attempts[k] >= 1
              /\ mode = "resume" => \A c \in failed_chunks : attempts[c] >= 1

C17_Witness ==
    /\ ResumeSaved
    /\ Len(chunks) = 2
    /\ attempts[1] = 1 /\ attempts[2] = 1
    /\ Len(writes) = 1

\* C20: in every document on disk each entry's summary_length is the length
\* of the entry's summary.
C20_SummaryLengthMatches ==
    \A p \in Artifacts :
        \A k \in DOMAIN fs[p][1].chunks :
            fs[p][1].chunks[k].summary_length = TextLen(fs[p][1].chunks[k].summary)

C20_Witness ==
    /\ ResumeSaved
    /\ Len(loaded0[1].chunks) >= 1
    /\ loaded0[1].chunks[1].summary_length = 54
    /\ fs[existing_path[1]][1].chunks[1].summary_length = 40

\* the request for chunk c in this call was answered with a text
Answered(c) ==
    /\ attempts[c] >= 1
    /\ ~env[c].decode_fails
    /\ env[c].script[1].kind = "ok"

\* the summary this call has stored for chunk c
StoredSummary(c) ==
    IF mode = "fresh"
    THEN IF c <= Len(chunk_summaries) THEN chunk_summaries[c][2] ELSE <<>>
    ELSE IF existing_summary # None /\ c <= Len(existing_summary[1].chunks)
         THEN existing_summary[1].chunks[c].summary
         ELSE <<>>

\* C12: for every text the remote service answers with, a text longer than
\* the cap is stored as its first cap-3 characters followed by "...", of
\* length exactly the cap, and any other text is stored unchanged; the service
\* was requested exactly once; no stored answer is longer than the cap.
C12_TruncationToTheCap ==
    \A c \in ChunkNumbers :
        Answered(c) =>
            LET t == env[c].script[1].text
                stored == StoredSummary(c)
            IN /\ TextLen(t) > MaxSummaryChars =>
                     /\ stored = Take(t, MaxSummaryChars - 3) \o Ellipsis
                     /\ TextLen(stored) = MaxSummaryChars
               /\ TextLen(t) <= MaxSummaryChars => stored = t
               /\ TextLen(stored) <= MaxSummaryChars
               /\ calls[c] = 1

C12_Witness ==
    /\ FreshDone
    /\ Answered(1)
    /\ TextLen(env[1].script[1].text) = MaxSummaryChars + 1
    /\ Len(ret[1].chunks) = 1
    /\ ret[1].chunks[1].summary_length = MaxSummaryChars

\* C14 as stated: in the document of a fresh run, the summary of a chunk
\* whose request was answered with a text does not contain the marker, and
\* the chunk is not among those the next run classifies as failed.
C14_MarkerOnlyInFailedChunks ==
    FreshDone =>
        \A k \in DOMAIN ret[1].chunks :
            Answered(ret[1].chunks[k].chunk_number) =>
                /\ ~Contains(ret[1].chunks[k].summary, Marker)
                /\ ret[1].chunks[k].chunk_number \notin classify_failed(ret[1])

\* the sleeps of this call that belong to chunk c, in order
SleepsOf(c) == SelectSeq(sleeps, LAMBDA s : s[1] = c)

\* C18: in a fresh run, once the loop has passed the chunk at 0-based
\* position idx whose request was answered with a text, the run has slept
\* once for that chunk, after the call of summarize_chunk, for 2 s when
\* idx < 10, 4 s when 10 <= idx < 20 and 6 s when idx >= 20, and no sleep of a
\* chunk not yet started has been made; in a resume run every chunk
\* re-processed is preceded by a sleep of 3 s, made before its call of
\* summarize_chunk, and chunks that are not re-processed cause no sleep.
C18_PacingDelays ==
    /\ (mode = "fresh") =>
          /\ \A k \in DOMAIN sleeps : sleeps[k][1] <= i
          /\ \A c \in DOMAIN attempts :
                (c <= i /\ Answered(c)) =>
                    SleepsOf(c) = << <<c, IF c - 1 < 10 THEN 2
                                          ELSE IF c - 1 < 20 THEN 4 ELSE 6, 1>> >>
    /\ (mode = "resume") =>
          /\ \A k \in DOMAIN sleeps : sleeps[k][1] <= i
          /\ \A c \in DOMAIN attempts :
                IF attempts[c] >= 1
                THEN /\ SleepsOf(c) # <<>>
                     /\ SleepsOf(c)[1] = <<c, 3, 0>>
                     /\ \A k \in DOMAIN SleepsOf(c) : k > 1 => SleepsOf(c)[k][2] >= 1
                ELSE SleepsOf(c) = <<>>

C18_Witness ==
    /\ FreshDone
    /\ Len(chunks) >= 21
    /\ \A c \in {1, 11, 21} : Answered(c)
    /\ {<<1, 2, 1>>, <<11, 4, 1>>, <<21, 6, 1>>} \subseteq Range(sleeps)

\* C19 as stated: a call of process_video that found, at the path
\* check_existing_summary reads, a file that cannot be parsed has raised
\* nothing on account of that file and runs in fresh mode, the file having
\* been reported as absent.
C19_UnparseableArtifactIsAbsent ==
    (/\ runs >= 1
     /\ existing_path = None
     /\ fs0[summary_filename(video.path)] # None
     /\ load_error(fs0[summary_filename(video.path)][1]) # NoExc) =>
        /\ check_existing_summary_raises(fs0, video.path) = NoExc
        /\ check_existing_summary(fs0, video.path) = None
        /\ mode = "fresh"
        /\ exc \notin {"JSONDecodeError", "UnicodeDecodeError"}

\* C21: throughout a resume run the chunks classified as failed in the
\* document being updated, and in the artifact on disk at the path loaded,
\* are among those classified as failed in the document loaded, whatever the
\* outcome of the requests sent again.
C21_ResumeNeverAddsFailures ==
    (mode = "resume" /\ loaded0 # None) =>
        /\ existing_summary # None
        /\ classify_failed(existing_summary[1]) \subseteq classify_failed(loaded0[1])
        /\ fs[existing_path[1]] # None
        /\ classify_failed(fs[existing_path[1]][1]) \subseteq classify_failed(loaded0[1])
        /\ (pc = "done" /\ ret # None) =>
              classify_failed(ret[1]) \subseteq classify_failed(loaded0[1])

C21_Witness ==
    /\ ResumeSaved
    /\ classify_failed(loaded0[1]) = {1, 2}
    /\ env[1].script[1].kind = "ok" /\ ~env[1].decode_fails
    /\ env[2].script[1] = RateLimited
    /\ classify_failed(fs[existing_path[1]][1]) = {2}

\* the resume run loaded its artifact and then ended with the exception
\* ingest_video raised
ResumeSetupAborted ==
    /\ mode = "resume" /\ pc = "raised"
    /\ loaded0 # None
    /\ opened = {}
    /\ exc \in {"FileNotFoundError", "Exception"}

\* C22: a resume run that ended because the video is missing or cannot be
\* opened has invoked summarize_chunk for no chunk, sent no request, slept
\* and written nothing, and every path holds what it held when the run
\* started; the path loaded still holds the document loaded, with its
\* processing_date.
C22_SetupErrorLeavesArtifact ==
    ResumeSetupAborted =>
        /\ \A c \in DOMAIN attempts : attempts[c] = 0 /\ calls[c] = 0
        /\ sleeps = <<>>
        /\ writes = <<>>
        /\ fs = fs0
        /\ fs[existing_path[1]] = Some(loaded0[1])
        /\ fs[existing_path[1]][1].processing_date = loaded0[1].processing_date
        /\ ret = None

C22_Witness ==
    /\ ResumeSetupAborted
    /\ exc = "FileNotFoundError"
    /\ classify_failed(loaded0[1]) # {}
    /\ loaded0[1].processing_date < runs
    /\ fs[existing_path[1]] = Some(loaded0[1])

====
